---- MODULE Spec2Model ----
(***************************************************************************)
(* Early boot and physical page-frame allocator of the rv64 kernel.        *)
(*                                                                         *)
(* Addresses and lengths are counted in words of WORD = 16 bytes (the u128 *)
(* stride of add_frame_area), because the byte address 0x8000_0000 does    *)
(* not fit TLC's integers.  Every address and size the model draws is a    *)
(* multiple of 16 bytes, so that all divisions of the source are exact in  *)
(* this unit: size / 0x1000 = words \div PAGE_SIZE, size / 16 = words.     *)
(* A negative length d stands for the usize d + 2^64 that a wrapping       *)
(* subtraction leaves (builds without overflow checks).                    *)
(***************************************************************************)
EXTENDS Integers, Sequences, FiniteSets, TLC

\* ------------------------------------------------------------- constants
\* bytes in one model word: the u128 stride, frame.rs:59 (size / 16)
WORD == 16
\* 0x1000 bytes, frame.rs:27,34,41
PAGE_SIZE == 4096 \div WORD
\* 0x8000_0000 bytes = 2^31 bytes = 2^27 words, main.rs:157
RAM_BASE == 2^27

\* ---------------------------------------------------------------- bounds
\* pages of the largest range / region the model draws
MaxPages == 3
\* successful alloc calls in one run
MaxAllocs == 4
\* memory regions the device tree reports
MaxRegions == 2
\* bytes of the bss segment [_sbss, _ebss)
BssLen == 2
\* harts using the allocator at the same time
NHarts == 2
\* completed dealloc calls that bypass the handles
MaxDirect == 2

VARIABLES
    \* FRAME_ALLOCATOR (frame.rs:8-12, 54)
    start, size, usage,
    \* live TrackerFrame values, in the order alloc returned them
    handles,
    \* allocs issued, deallocs completed, add_memory calls
    allocs, deallocs, seedCalls,
    \* the last allocator call: [op, ret, before, pair]
    last,
    \* position of the hart, the panic raised ("none" when none), the
    \* error-level console lines
    pc, fatal, console,
    \* bss bytes, allocator::init calls, logger installed, steps run so far
    bss, heapInits, logInit, trace,
    \* firmware / build inputs: device tree, _ekernel, overflow checks
    fdt, ekernel, overflow_checks,
    \* locals of main: mem_start, mem_size, index of the next region
    mem_start, mem_size, ridx,
    \* the spin lock of FRAME_ALLOCATOR (0 free, else the hart holding the
    \* guard) and what each hart is executing
    lock, hart,
    \* the words of RAM that are not all zero, and the bytes (0..15) by which
    \* the size passed to seeding exceeds its whole words
    ram, size_rem,
    \* stack pointer of the boot hart and the address of STACK
    sp, stack

frameVars == <<start, size, usage>>
apiVars == <<handles, allocs, deallocs, seedCalls, last>>
bootVars == <<bss, heapInits, logInit>>
inputVars == <<fdt, ekernel, overflow_checks>>
localVars == <<mem_start, mem_size, ridx>>
otherVars == <<lock, hart, size_rem, sp, stack>>
vars == <<start, size, usage, handles, allocs, deallocs, seedCalls, last,
          pc, fatal, console, bss, heapInits, logInit, trace,
          fdt, ekernel, overflow_checks, mem_start, mem_size, ridx,
          lock, hart, ram, size_rem, sp, stack>>

\* harts that may use the allocator
Harts == 1..NHarts
\* a hart outside every allocator call
Idle == [pc |-> "idle", stmt |-> "none", arg |-> 0]

\* ------------------------------------------------------- pure operators
NoCall == [op |-> "none", ret |-> -1, before |-> <<>>, pair |-> FALSE]

\* FrameAllocator::new
new == [start |-> 0, size |-> 0, usage |-> <<>>]

\* vec![false; size / 0x1000]
add_memory_usage_roundup(n) == [i \in 1..((n + PAGE_SIZE - 1) \div PAGE_SIZE) |-> FALSE]
add_memory_usage(n) == [i \in 1..(n \div PAGE_SIZE) |-> FALSE]

\* for i in 0..self.usage.len() { if self.usage[i] == false { .. } }:
\* the 0-based index the loop stops at, or -1 when it runs to the end
RECURSIVE scan(_, _)
scan(u, i) ==
    IF i >= Len(u) THEN -1
    ELSE IF u[i + 1] = FALSE THEN i
    ELSE scan(u, i + 1)

RECURSIVE scan_back(_, _)
scan_back(u, i) ==
    IF i < 0 THEN -1
    ELSE IF u[i + 1] = FALSE THEN i
    ELSE scan_back(u, i - 1)

first_free_from_end(u) == scan_back(u, Len(u) - 1)
first_free(u) == scan(u, 0)

\* self.usage[i] = true
mark_forgotten(u, i) == u
mark(u, i) == [u EXCEPT ![i + 1] = TRUE]

\* TrackerFrame(self.start + i * 0x1000)
frame_addr(s, i) == s + i * PAGE_SIZE

\* (addr - self.start) / 0x1000
page_index_plus_one(addr, s) == (addr - s) \div PAGE_SIZE + 1
page_index(addr, s) == (addr - s) \div PAGE_SIZE

\* self.usage[page_index] = false
clear_all(u, i) == [k \in 1..Len(u) |-> FALSE]
clear_forgotten(u, i) == u
clear(u, i) == [u EXCEPT ![i + 1] = FALSE]

\* from_raw_parts_mut(start as *mut u128, size / 16).fill(0): the n whole
\* words from s on become zero
zero_fill_short(m, s, n) == {a \in m : ~(s <= a /\ a < s + n - 1)}
zero_fill(m, s, n) == {a \in m : ~(s <= a /\ a < s + n)}

\* x.size.unwrap() - (get_kernel_range().1 - 0x8000_0000)
usable_size(rsize, ek) == rsize - (ek - RAM_BASE)

\* remove element i of a sequence
Remove(s, i) == SubSeq(s, 1, i - 1) \o SubSeq(s, i + 1, Len(s))

\* panic!: control passes to the panic handler, nothing is unwound
Panic(msg) == /\ pc' = "panic"
              /\ fatal' = msg


\* ------------------------------------------------- collaborators (no source)
\* log front-end, error level: one console line once the logger is installed
error(msg) == console' = IF logInit THEN Append(console, msg) ELSE console

\* sbi::shutdown(): the non-returning halt
shutdown == pc' = "halted"

\* ------------------------------------------------------ frame allocator
\* FrameAllocator::add_memory
add_memory(s, n) ==
    /\ start' = s
    /\ size' = n
    /\ usage' = add_memory_usage(n)
    /\ seedCalls' = seedCalls + 1

\* add_frame_area(start, size), returning to ret_pc.  A length that wrapped
\* (n < 0, i.e. more than isize::MAX bytes) makes from_raw_parts_mut
\* undefined: the fill runs off the end of RAM and the hart traps, or the
\* build gets as far as vec![false; ..] and panics on the capacity.
add_frame_area(s, n, ret_pc) ==
    IF n < 0
    THEN /\ \/ pc' = "trap" /\ UNCHANGED fatal
            \/ Panic("capacity overflow")
         /\ ram' = {a \in ram : a < s}
         /\ UNCHANGED <<frameVars, seedCalls>>
    ELSE /\ ram' = zero_fill(ram, s, n)
         /\ add_memory(s, n)
         /\ pc' = ret_pc
         /\ UNCHANGED fatal

\* FrameAllocator::alloc, with the exhausted pool handing out start again
alloc_bogus ==
    LET i == first_free(usage) IN
    LET j == IF i >= 0 THEN i ELSE 0 IN
    /\ usage' = IF i >= 0 THEN mark(usage, i) ELSE usage
    /\ handles' = Append(handles, frame_addr(start, j))
    /\ allocs' = allocs + 1
    /\ last' = [op |-> "alloc", ret |-> frame_addr(start, j),
                before |-> usage, pair |-> FALSE]
    /\ UNCHANGED <<pc, fatal>>

\* FrameAllocator::alloc (through FRAME_ALLOCATOR.lock())
alloc ==
    LET i == first_free(usage) IN
    IF i >= 0
    THEN /\ usage' = mark(usage, i)
         /\ handles' = Append(handles, frame_addr(start, i))
         /\ allocs' = allocs + 1
         /\ last' = [op |-> "alloc", ret |-> frame_addr(start, i),
                     before |-> usage, pair |-> FALSE]
         /\ UNCHANGED <<pc, fatal>>
    ELSE /\ Panic("not yet implemented")
         /\ last' = [op |-> "alloc", ret |-> -1,
                     before |-> usage, pair |-> FALSE]
         /\ UNCHANGED <<usage, handles, allocs>>

\* FrameAllocator::dealloc that ignores an index outside usage
dealloc_silent(addr) ==
    LET i == page_index(addr, start) IN
    /\ usage' = IF addr >= start /\ i < Len(usage) THEN clear(usage, i) ELSE usage
    /\ deallocs' = deallocs + 1
    /\ UNCHANGED <<pc, fatal>>

\* FrameAllocator::dealloc.  addr < start: the subtraction panics under
\* overflow checks and wraps without them, and the wrapped index is then
\* out of bounds; both end in a panic before any slot is written.
dealloc(addr) ==
    IF addr < start
    THEN /\ IF overflow_checks
            THEN Panic("attempt to subtract with overflow")
            ELSE Panic("index out of bounds")
         /\ UNCHANGED <<usage, deallocs>>
    ELSE LET i == page_index(addr, start) IN
         IF i >= Len(usage)
         THEN /\ Panic("index out of bounds")
              /\ UNCHANGED <<usage, deallocs>>
         ELSE /\ usage' = clear(usage, i)
              /\ deallocs' = deallocs + 1
              /\ UNCHANGED <<pc, fatal>>

\* impl Drop for TrackerFrame, for the live handle at position h
drop(h) ==
    /\ dealloc(handles[h])
    /\ handles' = Remove(handles, h)
    /\ last' = [op |-> "drop", ret |-> handles[h], before |-> usage,
                pair |-> (last.op = "alloc" /\ last.ret = handles[h])]

\* ---------------------------------------------------------- fatal path
\* panic_handler, line 179, without the message
panic_handler_silent ==
    /\ pc = "panic"
    /\ pc' = "panic_exit"
    /\ trace' = Append(trace, "panic_handler")
    /\ UNCHANGED <<frameVars, apiVars, fatal, console, bootVars, inputVars, otherVars, ram, localVars>>

\* panic_handler, line 179: error!("An error occurred: {}", ..)
panic_handler ==
    /\ pc = "panic"
    /\ error(fatal)
    /\ pc' = "panic_exit"
    /\ trace' = Append(trace, "panic_handler")
    /\ UNCHANGED <<frameVars, apiVars, fatal, bootVars, inputVars, otherVars, ram, localVars>>

\* panic_handler, line 180: shutdown()
panic_shutdown ==
    /\ pc = "panic_exit"
    /\ shutdown
    /\ trace' = Append(trace, "shutdown")
    /\ UNCHANGED <<frameVars, apiVars, fatal, console, bootVars, inputVars, otherVars, ram, localVars>>

\* ------------------------------------------- the allocator in a running kernel
Starts == {0, PAGE_SIZE, RAM_BASE + PAGE_SIZE + PAGE_SIZE \div 2}
Sizes == {k * (PAGE_SIZE \div 2) : k \in 0..(2 * MaxPages)}

Init ==
    /\ start = new.start /\ size = new.size /\ usage = new.usage
    /\ handles = <<>> /\ allocs = 0 /\ deallocs = 0 /\ seedCalls = 0
    /\ last = NoCall
    /\ pc = "run" /\ fatal = "none" /\ console = <<>>
    /\ bss = [b \in 1..BssLen |-> 0] /\ heapInits = 1 /\ logInit = TRUE
    /\ trace = <<>>
    /\ fdt = [valid |-> TRUE, rtc |-> "none", regions |-> <<>>]
    /\ ekernel = RAM_BASE + PAGE_SIZE
    /\ overflow_checks \in BOOLEAN
    /\ mem_start = 0 /\ mem_size = 0 /\ ridx = 1
    /\ lock = 0 /\ hart = [h \in Harts |-> Idle]
    /\ ram = {} /\ size_rem = 0
    /\ sp = 0 /\ stack = 0

\* the one seeding call
Seed ==
    /\ pc = "run"
    /\ seedCalls = 0
    /\ \E s \in Starts, n \in Sizes : add_frame_area(s, n, "run")
    /\ UNCHANGED <<handles, allocs, deallocs, last, console, bootVars, trace,
                   inputVars, otherVars, localVars>>

CallAlloc ==
    /\ pc = "run"
    /\ allocs < MaxAllocs
    /\ alloc
    /\ UNCHANGED <<start, size, deallocs, seedCalls, console, bootVars, trace,
                   inputVars, otherVars, ram, localVars>>

DropHandle ==
    /\ pc = "run"
    /\ \E h \in 1..Len(handles) : drop(h)
    /\ UNCHANGED <<start, size, allocs, seedCalls, console, bootVars, trace,
                   inputVars, otherVars, ram, localVars>>

Next == Seed \/ CallAlloc \/ DropHandle \/ panic_handler \/ panic_shutdown

Spec == Init /\ [][Next]_vars


\* ---------------------------------------------------------------- boot
\* the statement of main that follows statement p (main.rs:95-162)
after_logging_first(p) ==
    CASE p = "clear_bss" -> "logging_init"
      [] p = "logging_init" -> "allocator_init"
      [] p = "allocator_init" -> "from_ptr"
      [] p = "from_ptr" -> "all_nodes"
      [] p = "all_nodes" -> "regions"
      [] p = "regions" -> "shutdown"

after(p) ==
    CASE p = "clear_bss" -> "allocator_init"
      [] p = "allocator_init" -> "logging_init"
      [] p = "logging_init" -> "from_ptr"
      [] p = "from_ptr" -> "all_nodes"
      [] p = "all_nodes" -> "regions"
      [] p = "regions" -> "shutdown"

\* clear_bss(): fill(0) over [_sbss, _ebss)
clear_bss ==
    /\ pc = "clear_bss"
    /\ bss' = [b \in 1..BssLen |-> 0]
    /\ pc' = after("clear_bss")
    /\ trace' = Append(trace, "clear_bss")
    /\ UNCHANGED <<frameVars, apiVars, fatal, console, heapInits, logInit,
                   inputVars, otherVars, ram, localVars>>

\* allocator::init(): HEAP_ALLOCATOR.lock().init(HEAP, HEAP_SIZE)
allocator_init ==
    /\ pc = "allocator_init"
    /\ heapInits' = heapInits + 1
    /\ pc' = after("allocator_init")
    /\ trace' = Append(trace, "allocator_init")
    /\ UNCHANGED <<frameVars, apiVars, fatal, console, bss, logInit,
                   inputVars, otherVars, ram, localVars>>

\* logging::init(option_env!("LOG")), banner and the hello lines
logging_init ==
    /\ pc = "logging_init"
    /\ logInit' = TRUE
    /\ pc' = after("logging_init")
    /\ trace' = Append(trace, "logging_init")
    /\ UNCHANGED <<frameVars, apiVars, fatal, console, bss, heapInits,
                   inputVars, otherVars, ram, localVars>>

\* Fdt::from_ptr(device_tree).expect("This is a not a valid device tree")
main_from_ptr ==
    /\ pc = "from_ptr"
    /\ IF fdt.valid
       THEN pc' = after("from_ptr") /\ UNCHANGED fatal
       ELSE Panic("This is a not a valid device tree")
    /\ trace' = Append(trace, "from_ptr")
    /\ UNCHANGED <<frameVars, apiVars, console, bootVars, inputVars, otherVars, ram, localVars>>

\* fdt.all_nodes().for_each(..): names are logged, a goldfish-rtc node is
\* read through child.reg().unwrap().next().unwrap()
main_all_nodes ==
    /\ pc = "all_nodes"
    /\ IF fdt.rtc = "noreg"
       THEN Panic("called Option::unwrap() on a None value")
       ELSE pc' = after("all_nodes") /\ UNCHANGED fatal
    /\ trace' = Append(trace, "all_nodes")
    /\ UNCHANGED <<frameVars, apiVars, console, bootVars, inputVars, otherVars, ram, localVars>>

\* one pass of fdt.memory().regions().for_each(..), seeding in the closure
main_region_seeding ==
    /\ pc = "regions"
    /\ ridx <= Len(fdt.regions)
    /\ fdt.regions[ridx].sized
    /\ usable_size(fdt.regions[ridx].size, ekernel) >= 0
    /\ mem_start' = ekernel
    /\ mem_size' = usable_size(fdt.regions[ridx].size, ekernel)
    /\ ridx' = ridx + 1
    /\ add_frame_area(mem_start', mem_size', "regions")
    /\ trace' = Append(trace, "memory_region")
    /\ UNCHANGED <<handles, allocs, deallocs, last, console, bootVars, inputVars, otherVars>>

\* one pass of fdt.memory().regions().for_each(..), main.rs:150-158
main_region ==
    /\ pc = "regions"
    /\ ridx <= Len(fdt.regions)
    /\ LET x == fdt.regions[ridx] IN
       IF ~x.sized
       THEN /\ Panic("called Option::unwrap() on a None value")
            /\ UNCHANGED localVars
       ELSE IF usable_size(x.size, ekernel) < 0 /\ overflow_checks
       THEN /\ Panic("attempt to subtract with overflow")
            /\ UNCHANGED localVars
       ELSE /\ mem_start' = ekernel
            /\ mem_size' = usable_size(x.size, ekernel)
            /\ ridx' = ridx + 1
            /\ UNCHANGED <<pc, fatal>>
    /\ trace' = Append(trace, "memory_region")
    /\ UNCHANGED <<frameVars, apiVars, console, bootVars, inputVars, otherVars, ram>>

\* add_frame_area(mem_start, mem_size), main.rs:160, after the last region
main_add_frame_area ==
    /\ pc = "regions"
    /\ ridx > Len(fdt.regions)
    /\ add_frame_area(mem_start, mem_size, after("regions"))
    /\ trace' = Append(trace, "add_frame_area")
    /\ UNCHANGED <<handles, allocs, deallocs, last, console, bootVars,
                   inputVars, otherVars, localVars>>

\* shutdown(), main.rs:162
main_shutdown ==
    /\ pc = "shutdown"
    /\ shutdown
    /\ trace' = Append(trace, "shutdown")
    /\ UNCHANGED <<frameVars, apiVars, fatal, console, bootVars, inputVars, otherVars, ram, localVars>>

\* what firmware, linker and build can hand to main
Garbage == {0, 255}
Region(b, n, s) == [base |-> b, size |-> n, sized |-> s]
Regions ==
    {Region(b, k * PAGE_SIZE, TRUE) :
        b \in {RAM_BASE, RAM_BASE + PAGE_SIZE}, k \in 1..MaxPages}
    \cup {Region(RAM_BASE, 0, FALSE)}
RegionLists ==
    UNION {[1..n -> Regions] : n \in 0..MaxRegions}
\* an invalid blob has no nodes; an rtc node without reg stops the boot before
\* memory is read
Fdts ==
    {[valid |-> FALSE, rtc |-> "none", regions |-> <<>>],
     [valid |-> TRUE, rtc |-> "noreg", regions |-> <<>>]}
    \cup {[valid |-> TRUE, rtc |-> r, regions |-> l] :
             r \in {"none", "ok"}, l \in RegionLists}
Kernels == {RAM_BASE + PAGE_SIZE, RAM_BASE + PAGE_SIZE + PAGE_SIZE \div 2}

BootInit ==
    /\ start = new.start /\ size = new.size /\ usage = new.usage
    /\ handles = <<>> /\ allocs = 0 /\ deallocs = 0 /\ seedCalls = 0
    /\ last = NoCall
    /\ pc = "clear_bss" /\ fatal = "none" /\ console = <<>>
    /\ bss \in [1..BssLen -> Garbage] /\ heapInits = 0 /\ logInit = FALSE
    /\ trace = <<>>
    /\ fdt \in Fdts
    /\ ekernel \in Kernels
    /\ overflow_checks \in BOOLEAN
    /\ mem_start = 0 /\ mem_size = 0 /\ ridx = 1
    /\ lock = 0 /\ hart = [h \in Harts |-> Idle]
    /\ ram = {} /\ size_rem = 0
    /\ sp = 0 /\ stack = 0

BootNext ==
    \/ clear_bss \/ allocator_init \/ logging_init
    \/ main_from_ptr \/ main_all_nodes
    \/ main_region \/ main_add_frame_area \/ main_shutdown
    \/ panic_handler \/ panic_shutdown

BootSpec == BootInit /\ [][BootNext]_vars

\* boot and running kernel together; the hart keeps executing, so a raised
\* panic reaches the handler and the handler reaches shutdown
SystemInit == Init \/ BootInit
SystemNext == Next \/ BootNext
SystemSpec ==
    /\ SystemInit
    /\ [][SystemNext]_vars
    /\ WF_vars(panic_handler)
    /\ WF_vars(panic_shutdown)

\* --------------------------------------------------------------- entry
\* const STACK_SIZE: usize = 0x8_0000 (bytes), main.rs:37
STACK_SIZE == 524288 \div WORD

\* _start: la sp, STACK; li t0, STACK_SIZE; add sp, sp, t0; call main
boot_start ==
    /\ pc = "_start"
    /\ sp' = stack + STACK_SIZE
    /\ pc' = "clear_bss"
    /\ UNCHANGED <<frameVars, apiVars, fatal, console, bootVars, trace,
                   inputVars, localVars, lock, hart, ram, size_rem, stack>>

\* where the linker puts STACK
StackBases == {RAM_BASE, RAM_BASE + PAGE_SIZE}

\* the hart as firmware hands it over: sp is not yet the kernel's
EntryInit ==
    /\ start = new.start /\ size = new.size /\ usage = new.usage
    /\ handles = <<>> /\ allocs = 0 /\ deallocs = 0 /\ seedCalls = 0
    /\ last = NoCall
    /\ pc = "_start" /\ fatal = "none" /\ console = <<>>
    /\ bss \in [1..BssLen -> Garbage] /\ heapInits = 0 /\ logInit = FALSE
    /\ trace = <<>>
    /\ fdt \in Fdts
    /\ ekernel \in Kernels
    /\ overflow_checks \in BOOLEAN
    /\ mem_start = 0 /\ mem_size = 0 /\ ridx = 1
    /\ lock = 0 /\ hart = [h \in Harts |-> Idle]
    /\ ram = {} /\ size_rem = 0
    /\ sp = 0 /\ stack \in StackBases

EntryNext == boot_start \/ BootNext

EntrySpec == EntryInit /\ [][EntryNext]_vars

\* ------------------------------------------------- dealloc called directly
\* addresses a caller may pass: every half page from below start to past
\* the end of the largest range
DeallocAddrs ==
    {a \in {start + k * (PAGE_SIZE \div 2) : k \in (-1)..(2 * MaxPages + 1)} :
        a >= 0}

\* completed deallocs that were no handle drop
DirectCalls == deallocs - (allocs - Len(handles))

\* FRAME_ALLOCATOR.lock().dealloc(addr) with an address that need not come
\* from a handle
CallDealloc ==
    /\ pc = "run"
    /\ DirectCalls < MaxDirect
    /\ \E a \in DeallocAddrs :
          /\ dealloc(a)
          /\ last' = [op |-> "dealloc", ret |-> a, before |-> usage,
                      pair |-> FALSE]
    /\ UNCHANGED <<start, size, handles, allocs, seedCalls, console, bootVars,
                   trace, inputVars, localVars, otherVars, ram>>

DeallocNext == Next \/ CallDealloc

DeallocSpec == Init /\ [][DeallocNext]_vars

\* ------------------------------------------- harts sharing FRAME_ALLOCATOR
\* Each call is a statement of the form FRAME_ALLOCATOR.lock().op(..): the
\* guard is a temporary that lives to the end of the statement.  Statements:
\*   "seed"  add_frame_area(start, size)                      frame.rs:56-61
\*   "drop"  a bound TrackerFrame goes out of scope            frame.rs:48-52
\*   "let"   let page_start = FRAME_ALLOCATOR.lock().alloc();  frame.rs:65
\*   "temp"  FRAME_ALLOCATOR.lock().alloc();  the handle is a temporary of
\*           the same statement and is dropped before the guard
Running(h) == pc \notin {"halted", "trap"} /\ hart[h].pc # "panicked"
Seeding == \E h \in Harts : hart[h].stmt = "seed"
hartRest == <<console, bootVars, trace, inputVars, sp, stack, last>>

\* add_frame_area, lines 57-60: log and zero-fill, before the lock is taken
stmt_seed(h, S, N) ==
    /\ Running(h)
    /\ hart[h].pc = "idle"
    /\ seedCalls = 0 /\ ~Seeding
    /\ \E s \in S, n \in N :
          /\ mem_start' = s
          /\ mem_size' = n
          /\ ram' = zero_fill(ram, s, n)
    /\ hart' = [hart EXCEPT ![h] = [pc |-> "seed_lock", stmt |-> "seed", arg |-> 0]]
    /\ UNCHANGED <<frameVars, handles, allocs, deallocs, seedCalls, pc, fatal,
                   ridx, lock, size_rem, hartRest>>

\* the statement that calls alloc begins
stmt_alloc(h) ==
    /\ Running(h)
    /\ hart[h].pc = "idle"
    /\ allocs < MaxAllocs
    /\ \E f \in {"let", "temp"} :
          hart' = [hart EXCEPT ![h] = [pc |-> "alloc_lock", stmt |-> f, arg |-> 0]]
    /\ UNCHANGED <<frameVars, handles, allocs, deallocs, seedCalls, pc, fatal,
                   localVars, lock, ram, size_rem, hartRest>>

\* a bound handle goes out of scope: Drop::drop(&mut self) is entered
stmt_drop(h) ==
    /\ Running(h)
    /\ hart[h].pc = "idle"
    /\ \E k \in 1..Len(handles) :
          /\ hart' = [hart EXCEPT ![h] =
                         [pc |-> "drop_lock", stmt |-> "drop", arg |-> handles[k]]]
          /\ handles' = Remove(handles, k)
    /\ UNCHANGED <<frameVars, allocs, deallocs, seedCalls, pc, fatal,
                   localVars, lock, ram, size_rem, hartRest>>

\* where a hart goes once it has the lock
body_of(p) ==
    CASE p = "seed_lock" -> "seed_body"
      [] p = "alloc_lock" -> "alloc_body"
      [] p = "drop_lock" -> "drop_body"

\* spin::Mutex::lock that does not look at the lock word
acquire_blind(h) ==
    /\ Running(h)
    /\ hart[h].pc \in {"seed_lock", "alloc_lock", "drop_lock"}
    /\ lock' = h
    /\ hart' = [hart EXCEPT ![h].pc = body_of(hart[h].pc)]
    /\ UNCHANGED <<frameVars, handles, allocs, deallocs, seedCalls, pc, fatal,
                   localVars, ram, size_rem, hartRest>>

\* spin::Mutex::lock: the compare-exchange succeeds only on a free lock; a
\* failed attempt changes nothing and is retried
acquire(h) ==
    /\ Running(h)
    /\ hart[h].pc \in {"seed_lock", "alloc_lock", "drop_lock"}
    /\ lock = 0
    /\ lock' = h
    /\ hart' = [hart EXCEPT ![h].pc = body_of(hart[h].pc)]
    /\ UNCHANGED <<frameVars, handles, allocs, deallocs, seedCalls, pc, fatal,
                   localVars, ram, size_rem, hartRest>>

\* FRAME_ALLOCATOR.lock().add_memory(start, size), line 61, under the guard
body_seed(h) ==
    /\ Running(h)
    /\ hart[h].pc = "seed_body"
    /\ add_memory(mem_start, mem_size)
    /\ hart' = [hart EXCEPT ![h].pc = "seed_unlock"]
    /\ UNCHANGED <<handles, allocs, deallocs, pc, fatal,
                   localVars, lock, ram, size_rem, hartRest>>

\* FrameAllocator::alloc under the guard; a "temp" handle is dropped next,
\* with the guard still alive
body_alloc(h) ==
    /\ Running(h)
    /\ hart[h].pc = "alloc_body"
    /\ LET i == first_free(usage) IN
       IF i >= 0
       THEN /\ usage' = mark(usage, i)
            /\ allocs' = allocs + 1
            /\ hart' = [hart EXCEPT ![h].arg = frame_addr(start, i),
                                    ![h].pc = IF hart[h].stmt = "temp"
                                              THEN "drop_lock"
                                              ELSE "alloc_unlock"]
            /\ UNCHANGED <<pc, fatal>>
       ELSE /\ Panic("not yet implemented")
            /\ hart' = [hart EXCEPT ![h].pc = "panicked"]
            /\ UNCHANGED <<usage, allocs>>
    /\ UNCHANGED <<start, size, handles, deallocs, seedCalls,
                   localVars, lock, ram, size_rem, hartRest>>

\* FRAME_ALLOCATOR.lock().dealloc(self.0), line 50, under the guard
body_dealloc(h) ==
    /\ Running(h)
    /\ hart[h].pc = "drop_body"
    /\ dealloc(hart[h].arg)
    /\ hart' = [hart EXCEPT ![h].pc =
                   IF hart[h].arg >= start
                      /\ page_index(hart[h].arg, start) < Len(usage)
                   THEN "drop_unlock" ELSE "panicked"]
    /\ UNCHANGED <<start, size, handles, allocs, seedCalls,
                   localVars, lock, ram, size_rem, hartRest>>

\* the end of the statement: the MutexGuard temporary is dropped, which
\* stores "free" in the lock word.  After "let" the handle is bound; after
\* the drop inside a "temp" statement the guard of that statement is next.
release(h) ==
    /\ Running(h)
    /\ hart[h].pc \in {"seed_unlock", "alloc_unlock", "drop_unlock"}
    /\ lock' = 0
    /\ hart' = [hart EXCEPT ![h] =
                   IF hart[h].pc = "drop_unlock" /\ hart[h].stmt = "temp"
                   THEN [pc |-> "alloc_unlock", stmt |-> "none", arg |-> 0]
                   ELSE Idle]
    /\ handles' = IF hart[h].pc = "alloc_unlock" /\ hart[h].stmt = "let"
                  THEN Append(handles, hart[h].arg) ELSE handles
    /\ UNCHANGED <<frameVars, allocs, deallocs, seedCalls, pc, fatal,
                   localVars, ram, size_rem, hartRest>>

\* ---- seeding alone, over dirty memory
\* words the model watches: the first and last word of the half page at
\* PAGE_SIZE and the word after it
Probes == {PAGE_SIZE, PAGE_SIZE + PAGE_SIZE \div 2 - 1, PAGE_SIZE + PAGE_SIZE \div 2}
\* size % 16 of the size passed to seeding
Rems == {0, 8}

SeedInit ==
    /\ start = new.start /\ size = new.size /\ usage = new.usage
    /\ handles = <<>> /\ allocs = 0 /\ deallocs = 0 /\ seedCalls = 0
    /\ last = NoCall
    /\ pc = "run" /\ fatal = "none" /\ console = <<>>
    /\ bss = [b \in 1..BssLen |-> 0] /\ heapInits = 1 /\ logInit = TRUE
    /\ trace = <<>>
    /\ fdt = [valid |-> TRUE, rtc |-> "none", regions |-> <<>>]
    /\ ekernel = RAM_BASE + PAGE_SIZE
    /\ overflow_checks = FALSE
    /\ mem_start = 0 /\ mem_size = 0 /\ ridx = 1
    /\ lock = 0 /\ hart = [h \in Harts |-> Idle]
    /\ ram \in SUBSET Probes /\ size_rem \in Rems
    /\ sp = 0 /\ stack = 0

SeedNext ==
    \E h \in Harts :
        \/ stmt_seed(h, Starts, Sizes)
        \/ acquire(h)
        \/ body_seed(h)
        \/ release(h)

SeedSpec == SeedInit /\ [][SeedNext]_vars

\* ---- every statement, on every hart
LockSizes == {k * PAGE_SIZE : k \in 1..MaxPages}

LockInit ==
    /\ start = new.start /\ size = new.size /\ usage = new.usage
    /\ handles = <<>> /\ allocs = 0 /\ deallocs = 0 /\ seedCalls = 0
    /\ last = NoCall
    /\ pc = "run" /\ fatal = "none" /\ console = <<>>
    /\ bss = [b \in 1..BssLen |-> 0] /\ heapInits = 1 /\ logInit = TRUE
    /\ trace = <<>>
    /\ fdt = [valid |-> TRUE, rtc |-> "none", regions |-> <<>>]
    /\ ekernel = RAM_BASE + PAGE_SIZE
    /\ overflow_checks = FALSE
    /\ mem_start = 0 /\ mem_size = 0 /\ ridx = 1
    /\ lock = 0 /\ hart = [h \in Harts |-> Idle]
    /\ ram = {} /\ size_rem = 0
    /\ sp = 0 /\ stack = 0

HartStep(h) ==
    \/ stmt_seed(h, {PAGE_SIZE}, LockSizes)
    \/ stmt_alloc(h)
    \/ stmt_drop(h)
    \/ acquire(h)
    \/ body_seed(h)
    \/ body_alloc(h)
    \/ body_dealloc(h)
    \/ release(h)

LockNext ==
    \/ \E h \in Harts : HartStep(h)
    \/ panic_handler
    \/ panic_shutdown

LockSpec == LockInit /\ [][LockNext]_vars

\* a hart inside a statement keeps executing; a spinning hart wins the
\* compare-exchange at some time if the lock is free again and again
Advance(h) == body_seed(h) \/ body_alloc(h) \/ body_dealloc(h) \/ release(h)
FairLockSpec ==
    /\ LockSpec
    /\ \A h \in Harts : WF_vars(Advance(h)) /\ SF_vars(acquire(h))
    /\ WF_vars(panic_handler) /\ WF_vars(panic_shutdown)

\* ------------------------------------------------------------ properties
AllocatedSlots == {i \in 1..Len(usage) : usage[i]}
NoFreeSlot == \A i \in 1..Len(usage) : usage[i] = TRUE
\* a step in which alloc was called: it returned a handle or raised a panic
AllocCalled == /\ last'.op = "alloc"
               /\ \/ allocs' = allocs + 1
                  \/ fatal = "none" /\ fatal' # "none"

\* C1: no two frame handles that are live at the same time hold the same
\* address, over every sequence of alloc calls and handle drops after the
\* one seeding.
NoSharedFrame ==
    \A i, j \in 1..Len(handles) : i # j => handles[i] # handles[j]

\* two handles are live after an earlier handle was dropped
NoSharedFrameWitness ==
    /\ seedCalls = 1
    /\ Len(handles) >= 2
    /\ deallocs >= 1

ExhaustedAllocIsFatal ==
    [][(AllocCalled /\ NoFreeSlot) =>
         /\ usage' = usage
         /\ handles' = handles
         /\ allocs' = allocs
         /\ pc' = "panic"
         /\ fatal' = "not yet implemented"]_vars

\* alloc was called on a seeded pool whose every slot is allocated
ExhaustedAllocWitness ==
    /\ fatal = "not yet implemented"
    /\ last.op = "alloc"
    /\ Len(usage) >= 2
    /\ Len(handles) = Len(usage)

\* C4: a successful alloc returns start + i * 0x1000 for the smallest free
\* index i at the time of the call and marks exactly that slot; with every
\* slot free (the first alloc after seeding) it returns start.
FirstFit ==
    [][allocs' = allocs + 1 =>
         /\ \E i \in 1..Len(usage) :
               /\ ~usage[i]
               /\ \A j \in 1..(i - 1) : usage[j]
               /\ last'.ret = start + (i - 1) * PAGE_SIZE
               /\ usage' = [usage EXCEPT ![i] = TRUE]
         /\ handles' = Append(handles, last'.ret)
         /\ (AllocatedSlots = {} => last'.ret = start)]_vars

\* alloc filled the hole between two allocated slots
FirstFitWitness ==
    /\ last.op = "alloc"
    /\ last.before = <<TRUE, FALSE, TRUE>>
    /\ last.ret = start + PAGE_SIZE
    /\ usage = <<TRUE, TRUE, TRUE>>

\* C6: dropping a handle calls dealloc for its address exactly once; an
\* alloc followed by the drop of the handle it returned restores the usage
\* sequence, and the next alloc returns the same address again.
DropRestores ==
    [][/\ (Len(handles') < Len(handles) =>
              /\ Len(handles') = Len(handles) - 1
              /\ deallocs' = deallocs + 1)
       /\ ((last.op = "alloc" /\ last.ret >= 0 /\ last'.op = "drop"
              /\ last'.ret = last.ret) =>
              usage' = last.before)
       /\ ((last.op = "drop" /\ last.pair /\ allocs' = allocs + 1) =>
              last'.ret = last.ret)]_vars

\* a handle was dropped right after its alloc while other frames are live
DropRestoresWitness ==
    /\ last.op = "drop"
    /\ last.pair
    /\ Len(handles) >= 1
    /\ last.ret # start

\* C7: add_memory(start, size) leaves exactly size / 0x1000 slots, all free,
\* and the length of usage equals size / 0x1000 in every state, the
\* unseeded one included.
UsageLength ==
    /\ [](Len(usage) = size \div PAGE_SIZE)
    /\ [][seedCalls' = seedCalls + 1 =>
            /\ Len(usage') = size' \div PAGE_SIZE
            /\ \A i \in 1..Len(usage') : usage'[i] = FALSE]_vars

\* a range of one page and a half, after an alloc and a dealloc
UsageLengthWitness ==
    /\ seedCalls = 1
    /\ size = PAGE_SIZE + PAGE_SIZE \div 2
    /\ Len(usage) = 1
    /\ allocs >= 1
    /\ deallocs >= 1


Did(s) == \E k \in 1..Len(trace) : trace[k] = s
Count(s) == Cardinality({k \in 1..Len(trace) : trace[k] = s})
\* every occurrence of b in the trace comes after an occurrence of a
Precedes(a, b) ==
    \A j \in 1..Len(trace) :
        trace[j] = b => \E i \in 1..(j - 1) : trace[i] = a
\* the kernel image ends inside region x
KernelInside(x) == x.sized /\ x.base < ekernel /\ ekernel < x.base + x.size

\* C5: for every reported memory region (base, size) that holds the kernel
\* image end, the range handed to frame seeding is
\* [kernel_image_end, base + size).
UsableRangeIsRegionRest ==
    (Did("add_frame_area") /\ seedCalls = 1) =>
        \A k \in 1..Len(fdt.regions) :
            KernelInside(fdt.regions[k]) =>
                /\ start = ekernel
                /\ size = fdt.regions[k].base + fdt.regions[k].size - ekernel

\* C8: a boot that gets through the seeding step has called add_memory
\* exactly once, and no alloc is requested before it, whether the device
\* tree reports zero, one or several memory regions.
SeededExactlyOnce ==
    /\ seedCalls <= 1
    /\ (seedCalls = 1 => Did("add_frame_area"))
    /\ ((pc = "shutdown" \/ (pc = "halted" /\ fatal = "none")) => seedCalls = 1)
    /\ (seedCalls = 0 => allocs = 0 /\ start = 0 /\ size = 0 /\ usage = <<>>)
    /\ (seedCalls = 1 => start = mem_start /\ size = mem_size)

\* the boot halted after seeding from a device tree with several regions
SeededExactlyOnceWitness ==
    /\ pc = "halted"
    /\ fatal = "none"
    /\ Len(fdt.regions) = MaxRegions
    /\ Count("memory_region") = MaxRegions
    /\ seedCalls = 1
    /\ Len(usage) >= 1

\* C9: the bss segment is zeroed first, then the heap is initialised exactly
\* once, only then run logging setup, device-tree parsing and enumeration
\* and frame seeding, seeding after discovery, and the halt is last.
BootOrder ==
    /\ (trace # <<>> =>
           /\ trace[1] = "clear_bss"
           /\ \A b \in 1..BssLen : bss[b] = 0)
    /\ Count("clear_bss") <= 1
    /\ heapInits = Count("allocator_init")
    /\ heapInits <= 1
    /\ (heapInits = 1 => trace[2] = "allocator_init")
    /\ (logInit <=> Did("logging_init"))
    /\ \A s \in {"logging_init", "from_ptr", "all_nodes", "memory_region",
                 "add_frame_area"} :
           Did(s) => heapInits = 1 /\ Precedes("allocator_init", s)
    /\ Precedes("logging_init", "from_ptr")
    /\ Precedes("from_ptr", "all_nodes")
    /\ Precedes("all_nodes", "memory_region")
    /\ Precedes("all_nodes", "add_frame_area")
    /\ (Did("add_frame_area") => Count("memory_region") = Len(fdt.regions))
    /\ (seedCalls >= 1 => Did("add_frame_area"))
    /\ (Did("shutdown") <=> pc = "halted")
    /\ (Did("shutdown") => trace[Len(trace)] = "shutdown" /\ Count("shutdown") = 1)

\* a complete boot: garbage bss, one region, seeded, halted
BootOrderWitness ==
    /\ pc = "halted"
    /\ fatal = "none"
    /\ trace = <<"clear_bss", "allocator_init", "logging_init", "from_ptr",
                 "all_nodes", "memory_region", "add_frame_area", "shutdown">>
    /\ seedCalls = 1

\* C10: every fatal condition is followed by the diagnostic message and then
\* the shutdown call; after it is raised no boot step and no allocator
\* operation runs, and nothing continues or retries.
FatalEndsInShutdown ==
    /\ [][fatal # "none" =>
            /\ fatal' = fatal
            /\ pc' \in {"panic_exit", "halted"}
            /\ UNCHANGED <<frameVars, apiVars, bootVars, localVars>>]_vars
    /\ [](pc \in {"panic_exit", "halted"} /\ fatal # "none" =>
            /\ console = <<fatal>>
            /\ Precedes("panic_handler", "shutdown"))
    /\ [](pc = "panic" => fatal # "none")
    /\ (fatal # "none" ~> pc = "halted")

\* the pool ran dry in a running kernel and the hart has halted
FatalEndsInShutdownWitness ==
    /\ pc = "halted"
    /\ fatal = "not yet implemented"
    /\ console = <<"not yet implemented">>
    /\ Len(usage) >= 1


\* C12: when _start transfers to main the stack pointer is the base of the
\* reserved stack region plus its size, and that size is 128 KiB (0x20000
\* bytes).
StackTop128K ==
    pc # "_start" =>
        /\ sp = stack + STACK_SIZE
        /\ STACK_SIZE * WORD = 131072


\* a step in which dealloc was called directly: it completed or panicked
DeallocCalled == /\ last'.op = "dealloc"
                 /\ \/ deallocs' = deallocs + 1
                    \/ fatal = "none" /\ fatal' # "none"
InRange(a) == start <= a /\ a < start + size
InTrackedPages(a) == start <= a /\ a < start + Len(usage) * PAGE_SIZE
DeallocEffect(a) ==
    /\ (a - start) \div PAGE_SIZE < Len(usage)
    /\ usage' = [k \in 1..Len(usage) |->
                    IF k = (a - start) \div PAGE_SIZE + 1 THEN FALSE ELSE usage[k]]
    /\ UNCHANGED <<start, size, pc, fatal>>

\* C14 as claimed: dealloc(addr) with addr inside [start, start + size)
\* clears exactly slot (addr - start) / 0x1000 and leaves start, size, the
\* length of usage and every other slot unchanged, silently so when the slot
\* is already free.
DeallocInRangeClears ==
    [][(DeallocCalled /\ InRange(last'.ret)) => DeallocEffect(last'.ret)]_vars

\* C14 amended: the same for addr inside the tracked pages
\* [start, start + 0x1000 * (size / 0x1000)); an address in the untracked
\* tail of a size that is no page multiple has no slot and panics.
DeallocInPagesClears ==
    [][/\ (DeallocCalled /\ InTrackedPages(last'.ret)) => DeallocEffect(last'.ret)
       /\ (DeallocCalled /\ InRange(last'.ret) /\ ~InTrackedPages(last'.ret)) =>
              /\ pc' = "panic"
              /\ UNCHANGED <<start, size, usage>>]_vars

\* an address in the middle of the second page freed that page and only it
DeallocInPagesWitness ==
    /\ pc = "run"
    /\ last.op = "dealloc"
    /\ last.ret = start + PAGE_SIZE + PAGE_SIZE \div 2
    /\ last.before = <<TRUE, TRUE, TRUE>>
    /\ usage = <<TRUE, FALSE, TRUE>>

\* C15 as claimed: dealloc(addr) with addr outside [start, start + size)
\* writes no slot and ends in the index-out-of-bounds panic with usage,
\* start and size unchanged.
DeallocOutsideIndexPanic ==
    [][(DeallocCalled /\ ~InRange(last'.ret)) =>
          /\ pc' = "panic"
          /\ fatal' = "index out of bounds"
          /\ UNCHANGED <<start, size, usage>>]_vars

\* C15 amended: it writes no slot and ends in a panic with usage, start and
\* size unchanged: index out of bounds, except that addr below start in a
\* build with overflow checks panics on the subtraction.
DeallocOutsidePanics ==
    [][(DeallocCalled /\ ~InRange(last'.ret)) =>
          /\ pc' = "panic"
          /\ fatal' = IF last'.ret < start /\ overflow_checks
                      THEN "attempt to subtract with overflow"
                      ELSE "index out of bounds"
          /\ UNCHANGED <<start, size, usage>>]_vars

\* an address past the end of a pool with an allocated frame was passed
DeallocOutsideWitness ==
    /\ fatal = "index out of bounds"
    /\ last.op = "dealloc"
    /\ last.ret >= start + size
    /\ Len(usage) >= 2
    /\ AllocatedSlots # {}


\* ---- seeding and the content of memory
Dirty(a) == a \in ram
\* the 16-byte words that lie wholly in the byte range [start, start + size)
WholeWordsZero == \A a \in ram : ~(start <= a /\ a < start + size)
\* the word that holds the last size % 16 bytes of the range
TailZero == size_rem > 0 => ~Dirty(start + size)

\* C13 as stated: once seeding has run with (start, size), every byte
\* of [start, start + size) is zero, whatever the range held before and
\* whatever the size.
SeededRangeAllZero == seedCalls >= 1 => (WholeWordsZero /\ TailZero)

\* C13 amended: seeding zero-fills the size / 16 whole 16-byte words
\* from start; the fill is complete before add_memory tracks the range, and
\* add_memory itself writes no memory.
SeededWordsZero ==
    /\ [](seedCalls >= 1 => WholeWordsZero)
    /\ [][seedCalls' # seedCalls =>
            /\ ram' = ram
            /\ \A a \in ram : ~(start' <= a /\ a < start' + size')]_vars

\* seeding of a real range has returned and the bytes after the last whole
\* word still hold what they held before
SeededWordsZeroWitness ==
    /\ seedCalls = 1
    /\ size >= PAGE_SIZE \div 2
    /\ size_rem > 0
    /\ Dirty(start + size)
    /\ \A h \in Harts : hart[h].pc = "idle"

\* ---- the lock
InCritical(h) == hart[h].pc \in {"seed_body", "alloc_body", "drop_body"}
AllocatorState == <<start, size, usage, allocs, deallocs, seedCalls>>

\* C11: seeding, alloc and dealloc through a drop mutate the allocator
\* only while the calling hart holds the lock, two harts are never inside
\* the allocator together, and a hart whose statement has returned does not
\* hold the lock.
LockDiscipline ==
    /\ [](\A h \in Harts :
            /\ InCritical(h) => lock = h
            /\ hart[h].pc = "idle" => lock # h
            /\ \A g \in Harts : (InCritical(h) /\ InCritical(g)) => g = h)
    /\ [][AllocatorState' # AllocatorState =>
            \E h \in Harts : InCritical(h) /\ lock = h]_vars

\* one hart is inside alloc on a seeded allocator while another one spins
\* for the lock to release a handle
LockDisciplineWitness ==
    \E h, g \in Harts :
        /\ g # h
        /\ seedCalls = 1
        /\ hart[h].pc = "alloc_body" /\ lock = h
        /\ hart[g].pc = "drop_lock"

\* ---- releasing a handle
DropReturned(h) == hart[h].pc \notin {"drop_lock", "drop_body"}

\* C16 as stated: a release that has begun always completes, in every
\* interleaving, unless the kernel halts on a fatal condition first.
DropAlwaysCompletes ==
    \A h \in Harts :
        (hart[h].pc = "drop_lock") ~> (DropReturned(h) \/ fatal # "none")

====
